---- MODULE Spec2Model ----
(***************************************************************************)
(* A model of the playlist collections of radio-pls.                       *)
(*                                                                         *)
(*   src/make_radio_pls.py : PlsEntry (with tags), the tag-based           *)
(*                           PlaylistCollection, format_playlist, main     *)
(*   src/radio.pls.py      : PlsEntry, PlsPlaylist, the named/grouped      *)
(*                           PlaylistCollection, make_pls                  *)
(*                                                                         *)
(* SpecTags is the state machine of the tag-based collection, SpecNamed    *)
(* the one of the named/grouped collection, SpecPlaylist the one of        *)
(* PlsPlaylist.  They share the variables; the variables of the other      *)
(* collections stay at their initial value.                                *)
(***************************************************************************)
EXTENDS Integers, Sequences, FiniteSets, TLC

VARIABLES
    py3,        \* make_radio_pls.py runs on Python 2 and on Python 3 (l. 11-13)
    coll,       \* the tag-based PlaylistCollection (its __entries), once built
    gen,        \* the generator object returned by the last get(*tags)
    symbol,     \* named PlaylistCollection.__symbol
    bindings,   \* named PlaylistCollection.__entries (an OrderedDict)
    playlist,   \* PlsPlaylist.__entries (an OrderedDict)
    res         \* what the last operation was given and what it returned

vars == <<py3, coll, gen, symbol, bindings, playlist, res>>

----------------------------------------------------------------------------
(* Bounds of the model *)

MaxEntries == 2      \* add is explored while the result is no longer
MaxArgs == 2         \* number of varargs given to the constructor
MaxData == 2         \* number of records given to from_data

----------------------------------------------------------------------------
(* Values *)

Titles == {"A", "B", "C"}
Urls == {"u1"}
Tags == {"x", "y"}
TagSets == {{}, {"x"}}

\* The tags given to get(*tags).
TagArgs == {<<>>, <<"x">>, <<"y">>, <<"x", "y">>, <<"y", "x">>}

DefaultLength == -1

\* PlsEntry.__init__: title, file, length, tags.  oid is the identity of the
\* object: 0 for the entries the caller holds, the record's position for the
\* ones from_data creates.
PlsEntry(oid, title, fileurl, length, tags) ==
    [cls |-> "PlsEntry", oid |-> oid, title |-> title, file |-> fileurl,
     length |-> length, tags |-> tags]

\* The entries a caller passes to add and to the constructor.
Entries == {PlsEntry(0, t, u, DefaultLength, ts) :
                t \in Titles, u \in Urls, ts \in TagSets}

\* Arguments that are not a PlsEntry: a text and None.
NonEntries ==
    {[cls |-> "str", oid |-> 0, title |-> "A", file |-> "", length |-> 0,
      tags |-> {}],
     [cls |-> "int", oid |-> 0, title |-> "7", file |-> "", length |-> 0,
      tags |-> {}]}

Items == Entries \cup NonEntries

NoEntry == [cls |-> "NoneType", oid |-> 0, title |-> "", file |-> "",
            length |-> 0, tags |-> {}]

SeqsUpTo(S, n) == UNION {[1..k -> S] : k \in 0..n}

NoColl == [built |-> FALSE, entries |-> <<>>]
Coll(entries) == [built |-> TRUE, entries |-> entries]
NoGen == [st |-> "none", tags |-> <<>>, first |-> <<>>, dirty |-> FALSE]
NoRes == [op |-> "none", err |-> "", pre |-> <<>>, arg |-> <<>>, out |-> <<>>]

----------------------------------------------------------------------------
(* src/make_radio_pls.py: PlsEntry *)

\* __cmp__ compares by title.  `in` and == use it on Python 2; Python 3 never
\* calls __cmp__, and a class without __eq__ compares by identity.
PlsEntry_eq(a, b) ==
    IF py3 THEN a = b ELSE a.title = b.title

has_tag(item, tag) == tag \in item.tags

\* A configuration record is a dict: its keys and the values under them.
Dict(keys, name, url, tags) ==
    [keys |-> keys, name |-> name, url |-> url, tags |-> tags]

DictKeys == {"name", "url", "tags"}

Dicts ==
    {Dict(ks,
          IF "name" \in ks THEN n ELSE "",
          IF "url" \in ks THEN u ELSE "",
          IF "tags" \in ks THEN ts ELSE {}) :
        ks \in SUBSET DictKeys, n \in {"A", "B"}, u \in Urls,
        ts \in {{"x", "y"}}}

\* from_dict that reads url with d.get, as it reads tags.
from_dict_get_url(d, oid) ==
    IF "name" \notin d.keys THEN [err |-> "KeyError", entry |-> NoEntry]
    ELSE [err |-> "",
          entry |-> PlsEntry(oid, d.name, d.url, DefaultLength,
                             IF "tags" \in d.keys THEN d.tags ELSE {})]

\* from_dict: cls(d['name'], d['url'], tags=d.get('tags')); a missing key
\* raises KeyError, d.get gives None and set(None or ()) is empty.
from_dict(d, oid) ==
    IF "name" \notin d.keys THEN [err |-> "KeyError", entry |-> NoEntry]
    ELSE IF "url" \notin d.keys THEN [err |-> "KeyError", entry |-> NoEntry]
    ELSE [err |-> "",
          entry |-> PlsEntry(oid, d.name, d.url, DefaultLength,
                             IF "tags" \in d.keys THEN d.tags ELSE {})]

----------------------------------------------------------------------------
(* src/make_radio_pls.py: PlaylistCollection *)

\* item in self.entries
Contains(entries, item) ==
    \E i \in 1..Len(entries) : PlsEntry_eq(entries[i], item)

\* add without its isinstance check.
add_unchecked(entries, item) ==
    IF \E i \in 1..Len(entries) : PlsEntry_eq(entries[i], item)
    THEN [err |-> "", entries |-> entries]
    ELSE [err |-> "", entries |-> Append(entries, item)]

\* add: ValueError for a non-entry, nothing for an entry already present,
\* append otherwise.
add(entries, item) ==
    IF item.cls # "PlsEntry" THEN [err |-> "ValueError", entries |-> entries]
    ELSE IF Contains(entries, item) THEN [err |-> "", entries |-> entries]
    ELSE [err |-> "", entries |-> Append(entries, item)]

\* __init__: the loop over args, from the i-th on.
RECURSIVE init_from(_, _, _)
init_from(entries, args, i) ==
    IF i > Len(args) THEN [err |-> "", entries |-> entries]
    ELSE IF args[i].cls # "PlsEntry"
         THEN [err |-> "ValueError", entries |-> entries]
    ELSE LET r == add(entries, args[i]) IN
         IF r.err # "" THEN r ELSE init_from(r.entries, args, i + 1)

init(args) == init_from(<<>>, args, 1)

\* The body of the generator get(*tags) makes, from the i-th entry on.
RECURSIVE get_from(_, _, _)
get_from(entries, tags, i) ==
    IF i > Len(entries) THEN <<>>
    ELSE LET item == entries[i] IN
         IF Len(tags) = 0 THEN <<item>> \o get_from(entries, tags, i + 1)
         ELSE IF \E k \in 1..Len(tags) : has_tag(item, tags[k])
              THEN <<item>> \o get_from(entries, tags, i + 1)
         ELSE get_from(entries, tags, i + 1)

\* get that wants every given tag on an entry instead of any.
get_all_tags(entries, tags) ==
    SelectSeq(entries, LAMBDA e : \A k \in 1..Len(tags) : has_tag(e, tags[k]))

get(entries, tags) == get_from(entries, tags, 1)

\* from_data: tuple(PlsEntry.from_dict(i) for i in data), then cls(*entries).
RECURSIVE from_dicts(_, _)
from_dicts(data, i) ==
    IF i > Len(data) THEN [err |-> "", entries |-> <<>>]
    ELSE LET e == from_dict(data[i], i) IN
         IF e.err # "" THEN [err |-> e.err, entries |-> <<>>]
         ELSE LET rest == from_dicts(data, i + 1) IN
              IF rest.err # "" THEN rest
              ELSE [err |-> "", entries |-> <<e.entry>> \o rest.entries]

from_data(data) ==
    LET t == from_dicts(data, 1) IN
    IF t.err # "" THEN t ELSE init(t.entries)

----------------------------------------------------------------------------
(* src/make_radio_pls.py: the PLS text, as its lines *)

\* "\n".join of texts that are themselves lines: one after the other.
RECURSIVE JoinLines(_, _)
JoinLines(texts, sep) ==
    IF Len(texts) = 0 THEN <<"">>
    ELSE IF Len(texts) = 1 THEN texts[1]
    ELSE texts[1] \o sep \o JoinLines(Tail(texts), sep)

\* _entry_format
format_entry(title, url, length, num) ==
    << "Title" \o ToString(num) \o "=" \o title,
       "File" \o ToString(num) \o "=" \o url,
       "Length" \o ToString(num) \o "=" \o ToString(length) >>

\* PlsEntry.__format__: the format spec is the entry's number.
PlsEntry_format(entry, entry_number) ==
    format_entry(entry.title, entry.file, entry.length, entry_number)

\* format_playlist numbering with enumerate(entries), from 0.
format_playlist_from0(entries) ==
    <<"[playlist]", "">>
    \o JoinLines([idx \in 1..Len(entries) |->
                    PlsEntry_format(entries[idx], idx - 1)], <<"">>)
    \o <<"", "NumberOfEntries=" \o ToString(Len(entries)),
         "Version=" \o ToString(2)>>

\* _playlist_format around the entries, numbered by enumerate(entries, 1);
\* "\n\n".join puts one empty line between two stanzas.
format_playlist(entries) ==
    <<"[playlist]", "">>
    \o JoinLines([idx \in 1..Len(entries) |->
                    PlsEntry_format(entries[idx], idx)], <<"">>)
    \o <<"", "NumberOfEntries=" \o ToString(Len(entries)),
         "Version=" \o ToString(2)>>

----------------------------------------------------------------------------
(* The tag-based collection as a state machine *)

Result(op, arg, pre, err, out) ==
    [op |-> op, arg |-> arg, pre |-> pre, err |-> err, out |-> out]

InitTags ==
    /\ py3 \in BOOLEAN
    /\ coll = NoColl
    /\ gen = NoGen
    /\ symbol = ""
    /\ bindings = <<>>
    /\ playlist = <<>>
    /\ res = NoRes

\* PlaylistCollection(*args): the program builds its collection once, and an
\* exception of the constructor ends it.
Construct(args) ==
    /\ ~coll.built /\ res = NoRes
    /\ LET r == init(args) IN
       /\ coll' = IF r.err = "" THEN Coll(r.entries) ELSE NoColl
       /\ res' = Result("init", args, <<>>, r.err, <<>>)
    /\ UNCHANGED <<py3, gen, symbol, bindings, playlist>>

\* PlaylistCollection.from_data(data)
FromData(data) ==
    /\ ~coll.built /\ res = NoRes
    /\ LET r == from_data(data) IN
       /\ coll' = IF r.err = "" THEN Coll(r.entries) ELSE NoColl
       /\ res' = Result("from_data", data, <<>>, r.err, <<>>)
    /\ UNCHANGED <<py3, gen, symbol, bindings, playlist>>

\* collection.add(item)
Add(item) ==
    /\ coll.built
    /\ LET r == add(coll.entries, item) IN
       /\ Len(r.entries) <= MaxEntries
       /\ coll' = Coll(r.entries)
       /\ res' = Result("add", item, coll.entries, r.err, <<>>)
    /\ gen' = IF gen.st = "done" THEN [gen EXCEPT !.dirty = TRUE] ELSE gen
    /\ UNCHANGED <<py3, symbol, bindings, playlist>>

\* entries = pls_data.get(*tags): a new generator object, nothing run yet.
Get(tags) ==
    /\ coll.built
    /\ gen' = [st |-> "fresh", tags |-> tags, first |-> <<>>, dirty |-> FALSE]
    /\ res' = Result("get", tags, coll.entries, "", <<>>)
    /\ UNCHANGED <<py3, coll, symbol, bindings, playlist>>

\* A get whose result runs its body again on every traversal.
Yielded_restartable == get(coll.entries, gen.tags)

\* What one traversal of the generator yields: the generator runs its body
\* over the collection the first time and is exhausted from then on.
Yielded == IF gen.st = "fresh" THEN get(coll.entries, gen.tags) ELSE <<>>

\* The generator after a traversal; first keeps what its first one yielded.
Exhaust(out) ==
    [gen EXCEPT !.st = "done",
                !.first = IF gen.st = "fresh" THEN out ELSE gen.first]

\* for entry in entries: ... (main, the listing modes)
Traverse ==
    /\ gen.st # "none"
    /\ LET out == Yielded IN
       /\ gen' = Exhaust(out)
       /\ res' = Result("traverse", gen, coll.entries, "", out)
    /\ UNCHANGED <<py3, coll, symbol, bindings, playlist>>

\* print(format_playlist(list(entries))) (main)
PrintPlaylist ==
    /\ gen.st # "none"
    /\ LET out == Yielded IN
       /\ gen' = Exhaust(out)
       /\ res' = Result("format_playlist", gen, out, "",
                        format_playlist(out))
    /\ UNCHANGED <<py3, coll, symbol, bindings, playlist>>

NextTags ==
    \/ \E args \in SeqsUpTo(Items, MaxArgs) : Construct(args)
    \/ \E data \in SeqsUpTo(Dicts, MaxData) : FromData(data)
    \/ \E item \in Items : Add(item)
    \/ \E tags \in TagArgs : Get(tags)
    \/ Traverse
    \/ PrintPlaylist

SpecTags == InitTags /\ [][NextTags]_vars

----------------------------------------------------------------------------
(* src/radio.pls.py: PlsEntry and the named/grouped PlaylistCollection.    *)
(* The file runs on Python 2 only (unicode, iteritems), where == and `in`  *)
(* use __cmp__.                                                            *)

\* PlsEntry.__init__ of radio.pls.py: title, file, length.
RadioEntry(title, fileurl, length) ==
    [cls |-> "PlsEntry", title |-> title, file |-> fileurl, length |-> length]

RadioUrls == {"u1", "u2"}
RadioEntries == {RadioEntry(t, u, DefaultLength) :
                    t \in {"A", "B"}, u \in RadioUrls}

\* The names given to add and get, and the group symbols a collection is
\* made with ("" for None).
ArgNames == {"x", "y", "s_x"}
Symbols == {"", "s"}

\* PlsEntry.__cmp__: by title.
RadioEntry_eq(a, b) == a.title = b.title

\* PlsEntry.make_entry
make_entry(title, url, length, num) ==
    << "Title" \o ToString(num) \o "=" \o title,
       "File" \o ToString(num) \o "=" \o url,
       "Length" \o ToString(num) \o "=" \o ToString(length) >>

\* PlsEntry.str(num)
PlsEntry_str(entry, num) ==
    make_entry(entry.title, entry.file, entry.length, num)

\* PlaylistCollection.make_pls: enumerate counts from 0, the entry gets idx + 1.
make_pls(pls_list) ==
    <<"[playlist]", "">>
    \o JoinLines([i \in 1..Len(pls_list) |->
                    LET idx == i - 1 IN PlsEntry_str(pls_list[i], idx + 1)],
                 <<"">>)
    \o <<"", "NumberOfEntries=" \o ToString(Len(pls_list)),
         "Version=" \o ToString(2)>>

\* The OrderedDict __entries is the sequence of its (key, value) pairs.
names(od) == [i \in 1..Len(od) |-> od[i].name]
entries(od) == [i \in 1..Len(od) |-> od[i].item]

HasKey(od, k) == \E i \in 1..Len(od) : od[i].name = k

\* del od[k]
DelKey(od, k) == SelectSeq(od, LAMBDA p : p.name # k)

\* od[k] = v: a new key goes to the end, a present key keeps its place.
SetKey(od, k, v) ==
    IF HasKey(od, k)
    THEN [i \in 1..Len(od) |->
            IF od[i].name = k THEN [name |-> k, item |-> v] ELSE od[i]]
    ELSE Append(od, [name |-> k, item |-> v])

\* od[k] of a present key
ValueOf(od, k) == od[CHOOSE i \in 1..Len(od) : od[i].name = k].item

\* __key_of: the first key whose value equals item.
key_of(od, item) ==
    LET hits == {i \in 1..Len(od) : RadioEntry_eq(od[i].item, item)} IN
    od[CHOOSE i \in hits : \A j \in hits : i <= j].name

\* '{!s}_{!s}'.format(self.symbol, symbol)
Prefixed(sym, name) == sym \o "_" \o name

\* add that assigns over a bound name without deleting it first.
radio_add_no_del(sym, od, name, item) ==
    LET key == IF sym # "" THEN Prefixed(sym, name) ELSE name
        kept == IF HasKey(od, key) THEN od
                ELSE IF \E i \in 1..Len(od) : RadioEntry_eq(od[i].item, item)
                     THEN DelKey(od, key_of(od, item))
                ELSE od
    IN SetKey(kept, key, item)

\* PlaylistCollection.add(symbol, item)
radio_add(sym, od, name, item) ==
    LET key == IF sym # "" THEN Prefixed(sym, name) ELSE name
        kept == IF HasKey(od, key) THEN DelKey(od, key)
                ELSE IF \E i \in 1..Len(od) : RadioEntry_eq(od[i].item, item)
                     THEN DelKey(od, key_of(od, item))
                ELSE od
    IN SetKey(kept, key, item)

NoRadioEntry == RadioEntry("", "", 0)

\* get that looks the prefixed name up first.
radio_get_prefixed_first(sym, od, name) ==
    IF sym # "" /\ HasKey(od, Prefixed(sym, name))
    THEN [err |-> "", item |-> ValueOf(od, Prefixed(sym, name))]
    ELSE IF HasKey(od, name) THEN [err |-> "", item |-> ValueOf(od, name)]
    ELSE [err |-> "KeyError", item |-> NoRadioEntry]

\* get without the second lookup under the prefixed name.
radio_get_exact_only(sym, od, name) ==
    IF HasKey(od, name) THEN [err |-> "", item |-> ValueOf(od, name)]
    ELSE [err |-> "KeyError", item |-> NoRadioEntry]

\* PlaylistCollection.get(symbol)
radio_get(sym, od, name) ==
    IF HasKey(od, name) THEN [err |-> "", item |-> ValueOf(od, name)]
    ELSE IF sym # ""
         THEN IF HasKey(od, Prefixed(sym, name))
              THEN [err |-> "", item |-> ValueOf(od, Prefixed(sym, name))]
              ELSE [err |-> "KeyError", item |-> NoRadioEntry]
    ELSE [err |-> "KeyError", item |-> NoRadioEntry]

\* PlaylistCollection.pls()
radio_pls(od) == make_pls(entries(od))

----------------------------------------------------------------------------
(* The named/grouped collection as a state machine *)

\* PlaylistCollection(symbol): no class attribute and no keyword is an entry.
InitNamed ==
    /\ py3 = FALSE
    /\ coll = NoColl
    /\ gen = NoGen
    /\ symbol \in Symbols
    /\ bindings = <<>>
    /\ playlist = <<>>
    /\ res = NoRes

NamedAdd(name, item) ==
    /\ bindings' = radio_add(symbol, bindings, name, item)
    /\ res' = Result("add", [name |-> name, item |-> item], bindings, "", <<>>)
    /\ UNCHANGED <<py3, coll, gen, symbol, playlist>>

NamedGet(name) ==
    /\ LET r == radio_get(symbol, bindings, name) IN
       res' = Result("get", name, bindings, r.err, r.item)
    /\ UNCHANGED <<py3, coll, gen, symbol, bindings, playlist>>

NamedPls ==
    /\ res' = Result("pls", <<>>, entries(bindings), "", radio_pls(bindings))
    /\ UNCHANGED <<py3, coll, gen, symbol, bindings, playlist>>

NextNamed ==
    \/ \E name \in ArgNames, item \in RadioEntries : NamedAdd(name, item)
    \/ \E name \in ArgNames : NamedGet(name)
    \/ NamedPls

SpecNamed == InitNamed /\ [][NextNamed]_vars

----------------------------------------------------------------------------
(* src/radio.pls.py: PlsPlaylist *)

\* The names given to PlsPlaylist.add and get; the last one contains a dot.
PlaylistNames == {"p1", "p2", "p3", "p1.q"}
DottedNames == {"p1.q"}

\* '.' in name
HasDot(name) == name \in DottedNames

\* name.split('.', 1)[0]
BeforeDot(name) == IF name = "p1.q" THEN "p1" ELSE name

\* item in self.__entries.values()
HasValue(od, item) == \E i \in 1..Len(od) : RadioEntry_eq(od[i].item, item)

\* for k, v in self.__entries.iteritems(): del self.__entries[k]; break
DelFirstKey(od) == IF Len(od) = 0 THEN od ELSE DelKey(od, od[1].name)

\* PlsPlaylist.add(name, item)
playlist_add(od, name, item) ==
    IF HasDot(name) THEN od
    ELSE LET kept == IF HasKey(od, name) THEN DelKey(od, name)
                     ELSE IF HasValue(od, item) THEN DelFirstKey(od)
                     ELSE od
         IN SetKey(kept, name, item)

\* PlsPlaylist.get(name); no item here is a PlsPlaylist, so the part after a
\* dot is not followed.
playlist_get(od, name) ==
    LET key == IF HasDot(name) THEN BeforeDot(name) ELSE name IN
    IF HasKey(od, key) THEN [err |-> "", item |-> ValueOf(od, key)]
    ELSE [err |-> "KeyError", item |-> NoRadioEntry]

\* PlsPlaylist.pls(): make_pls(list(self.entries)); PlsPlaylist.make_pls is
\* the text of PlaylistCollection.make_pls.
playlist_pls(od) == make_pls(entries(od))

\* PlsPlaylist(title): no keyword is an entry.
InitPlaylist ==
    /\ py3 = FALSE
    /\ coll = NoColl
    /\ gen = NoGen
    /\ symbol = ""
    /\ bindings = <<>>
    /\ playlist = <<>>
    /\ res = NoRes

PlaylistAdd(name, item) ==
    /\ playlist' = playlist_add(playlist, name, item)
    /\ res' = Result("add", [name |-> name, item |-> item], playlist, "", <<>>)
    /\ UNCHANGED <<py3, coll, gen, symbol, bindings>>

PlaylistGet(name) ==
    /\ LET r == playlist_get(playlist, name) IN
       res' = Result("get", name, playlist, r.err, r.item)
    /\ UNCHANGED <<py3, coll, gen, symbol, bindings, playlist>>

PlaylistPls ==
    /\ res' = Result("pls", <<>>, entries(playlist), "", playlist_pls(playlist))
    /\ UNCHANGED <<py3, coll, gen, symbol, bindings, playlist>>

NextPlaylist ==
    \/ \E name \in PlaylistNames, item \in RadioEntries : PlaylistAdd(name, item)
    \/ \E name \in PlaylistNames : PlaylistGet(name)
    \/ PlaylistPls

SpecPlaylist == InitPlaylist /\ [][NextPlaylist]_vars

----------------------------------------------------------------------------
(* Properties of the tag-based collection (checked under SpecTags) *)

Range(f) == {f[i] : i \in DOMAIN f}

\* C2: the entries of the tag-based collection hold no two entries with the
\* same title, and add(entry) of an entry whose title is already present
\* leaves the entries as they were (same count, order and stored entries),
\* while add of a new title appends it.
C2_UniqueTitlesInInsertionOrder ==
    /\ \A i, j \in 1..Len(coll.entries) :
          i # j => coll.entries[i].title # coll.entries[j].title
    /\ (res.op = "add" /\ res.arg.cls = "PlsEntry") =>
          IF \E i \in 1..Len(res.pre) : res.pre[i].title = res.arg.title
          THEN coll.entries = res.pre
          ELSE coll.entries = Append(res.pre, res.arg)

\* The entries that have at least one of the given tags, in order.
WithAnyTag(es, tags) ==
    SelectSeq(es, LAMBDA e : tags = <<>> \/ Range(tags) \cap e.tags # {})

\* C3: the first traversal of get(*tags) yields exactly the entries of the
\* collection that have at least one of the tags, in insertion order (none
\* when no entry matches), and all entries in insertion order when no tag is
\* given.
C3_GetFiltersByAnyTag ==
    /\ (res.op = "traverse" /\ res.arg.st = "fresh") =>
          /\ res.out = WithAnyTag(coll.entries, res.arg.tags)
          /\ res.arg.tags = <<>> => res.out = coll.entries
    /\ (res.op = "format_playlist" /\ res.arg.st = "fresh") =>
          /\ res.pre = WithAnyTag(coll.entries, res.arg.tags)
          /\ res.arg.tags = <<>> => res.pre = coll.entries

C3_Witness ==
    /\ res.op = "traverse" /\ res.arg.st = "fresh"
    /\ Len(res.arg.tags) = 2
    /\ Len(res.out) = 1 /\ Len(coll.entries) = 2
    /\ res.out[1] = coll.entries[2]

\* C4 as claimed: a second traversal of the result of one get(*tags), with
\* no add in between, yields what the first traversal yielded.
C4_SecondTraversalYieldsTheSame ==
    (res.op = "traverse" /\ res.arg.st = "done" /\ ~res.arg.dirty) =>
        res.out = res.arg.first

\* C4 as amended: the result of one get(*tags) is a single-use generator; a
\* traversal after its first yields no entry, whatever the first yielded.
C4_LaterTraversalYieldsNothing ==
    /\ (res.op = "traverse" /\ res.arg.st = "done") => res.out = <<>>
    /\ (res.op = "format_playlist" /\ res.arg.st = "done") => res.pre = <<>>

C4_Witness ==
    /\ res.op = "traverse" /\ res.arg.st = "done" /\ ~res.arg.dirty
    /\ Len(res.arg.first) = 2
    /\ res.out = <<>>

\* C5: the rendered text has the header, one stanza of three lines per entry
\* given, the k-th numbered k with the k-th entry's title, file and length,
\* one empty line between stanzas, and NumberOfEntries=N and Version=2 at
\* its end.
C5_RenderNumbersByPosition ==
    (res.op \in {"format_playlist", "pls"}) =>
        LET E == res.pre
            L == res.out
            N == Len(E)
        IN /\ Len(L) = IF N = 0 THEN 6 ELSE 4 * N + 4
           /\ L[1] = "[playlist]" /\ L[2] = ""
           /\ \A k \in 1..N :
                 /\ L[4 * k - 1] = "Title" \o ToString(k) \o "=" \o E[k].title
                 /\ L[4 * k] = "File" \o ToString(k) \o "=" \o E[k].file
                 /\ L[4 * k + 1] =
                       "Length" \o ToString(k) \o "=" \o ToString(E[k].length)
                 /\ L[4 * k + 2] = ""
           /\ N = 0 => (L[3] = "" /\ L[4] = "")
           /\ L[Len(L) - 1] = "NumberOfEntries=" \o ToString(N)
           /\ L[Len(L)] = "Version=2"

C5_Witness ==
    /\ res.op = "format_playlist"
    /\ Len(res.pre) = 2
    /\ res.pre[1].title # res.pre[2].title
    /\ Len(res.out) = 12

C5_WitnessFiltered ==
    /\ res.op = "format_playlist"
    /\ res.arg.tags # <<>>
    /\ Len(res.pre) = 1 /\ Len(coll.entries) = 2

C5_WitnessEmpty ==
    res.op = "format_playlist" /\ res.pre = <<>> /\ Len(res.out) = 6

\* C7: add of an argument that is no PlsEntry fails with ValueError and
\* leaves the entries as they were; a constructor call with such an argument
\* fails with ValueError and builds no collection, however many entries
\* precede it.
C7_NonEntryIsRejected ==
    /\ (res.op = "add" /\ res.arg.cls # "PlsEntry") =>
          res.err = "ValueError" /\ coll.entries = res.pre
    /\ (res.op = "init"
        /\ \E i \in 1..Len(res.arg) : res.arg[i].cls # "PlsEntry") =>
          res.err = "ValueError" /\ ~coll.built

C7_Witness ==
    /\ res.op = "init" /\ Len(res.arg) = 2
    /\ res.arg[1].cls = "PlsEntry" /\ res.arg[2].cls # "PlsEntry"
    /\ res.err = "ValueError" /\ ~coll.built

C7_WitnessAdd ==
    /\ res.op = "add" /\ res.arg.cls # "PlsEntry"
    /\ res.err = "ValueError" /\ Len(coll.entries) = 2

Complete(d) == "name" \in d.keys /\ "url" \in d.keys

\* C8: from_data of a list with a record that lacks name or url fails with
\* KeyError and builds no collection; a list of records that all have both
\* builds one, and an entry made of a record without tags has no tag.
C8_MissingFieldFails ==
    (res.op = "from_data") =>
        IF \E i \in 1..Len(res.arg) : ~Complete(res.arg[i])
        THEN res.err = "KeyError" /\ ~coll.built
        ELSE /\ res.err = "" /\ coll.built
             /\ Len(res.arg) > 0 =>
                   Len(coll.entries) > 0 /\ coll.entries[1].oid = 1
             /\ \A k \in 1..Len(coll.entries) :
                   LET e == coll.entries[k]
                       d == res.arg[e.oid]
                   IN /\ e.title = d.name /\ e.file = d.url
                      /\ e.length = DefaultLength
                      /\ e.tags = IF "tags" \in d.keys THEN d.tags ELSE {}

C8_Witness ==
    /\ res.op = "from_data" /\ Len(res.arg) = 2
    /\ Complete(res.arg[1]) /\ "name" \in res.arg[2].keys
    /\ "url" \notin res.arg[2].keys
    /\ res.err = "KeyError" /\ ~coll.built

C8_WitnessNoTags ==
    /\ res.op = "from_data" /\ Len(res.arg) = 1
    /\ res.arg[1].keys = {"name", "url"}
    /\ coll.built /\ coll.entries[1].tags = {}

----------------------------------------------------------------------------
(* Properties of the named/grouped collection (checked under SpecNamed) *)

\* The name add binds: the name given, after the symbol and an underscore
\* when the collection has a symbol.
BoundName(name) == IF symbol = "" THEN name ELSE symbol \o "_" \o name

Bound(od, k) == \E i \in 1..Len(od) : od[i].name = k
ItemAt(od, k) == od[CHOOSE i \in 1..Len(od) : od[i].name = k].item

\* C1: no two names of the collection are bound to items with the same
\* title.
C1_OneNamePerItem ==
    \A i, j \in 1..Len(bindings) :
        i # j => bindings[i].item.title # bindings[j].item.title

\* C6: when add(y, item) is called with y not bound and the item bound under
\* a name x, then afterwards y is bound to the item, x is not bound, and
\* every other binding is as it was.
C6_RebindingMovesTheItem ==
    (res.op = "add") =>
        LET pre == res.pre
            y == BoundName(res.arg.name)
        IN \A i \in 1..Len(pre) :
              (~Bound(pre, y) /\ pre[i].item.title = res.arg.item.title) =>
                 /\ Bound(bindings, y) /\ ItemAt(bindings, y) = res.arg.item
                 /\ ~Bound(bindings, pre[i].name)
                 /\ \A j \in 1..Len(pre) :
                       pre[j].name # pre[i].name =>
                          /\ Bound(bindings, pre[j].name)
                          /\ ItemAt(bindings, pre[j].name) = pre[j].item

\* C9: get(name) returns the item bound under name when name is bound, else
\* the item bound under symbol_name when the collection has a symbol and that
\* name is bound, else fails with KeyError; it leaves the bindings and their
\* order as they were.
C9_GetExactThenPrefixed ==
    (res.op = "get") =>
        /\ bindings = res.pre
        /\ IF Bound(bindings, res.arg)
           THEN res.err = "" /\ res.out = ItemAt(bindings, res.arg)
           ELSE IF symbol # "" /\ Bound(bindings, symbol \o "_" \o res.arg)
           THEN /\ res.err = ""
                /\ res.out = ItemAt(bindings, symbol \o "_" \o res.arg)
           ELSE res.err = "KeyError"

C9_Witness ==
    /\ res.op = "get" /\ symbol = "s"
    /\ ~Bound(bindings, res.arg)
    /\ Bound(bindings, "s_" \o res.arg)
    /\ res.err = "" /\ res.out.title = "B"
    /\ Len(bindings) = 3

C9_WitnessNotFound ==
    /\ res.op = "get" /\ symbol = "" /\ res.err = "KeyError"
    /\ Len(bindings) = 2

\* C10: after add(name, item) the name bound is the last of names, also when
\* it was bound before, and the names that remain from before keep their
\* relative order; pls() renders the items in that order of the names.
C10_AddedNameIsLast ==
    /\ (res.op = "add") =>
          LET now == names(bindings)
              before == names(res.pre)
              y == BoundName(res.arg.name)
          IN /\ Len(now) > 0 /\ now[Len(now)] = y
             /\ SubSeq(now, 1, Len(now) - 1)
                   = SelectSeq(before, LAMBDA n : n # y /\ Bound(bindings, n))
    /\ (res.op = "pls") =>
          \A k \in 1..Len(bindings) :
             /\ res.out[4 * k - 1] =
                   "Title" \o ToString(k) \o "="
                      \o ItemAt(bindings, names(bindings)[k]).title
             /\ res.out[4 * k] =
                   "File" \o ToString(k) \o "="
                      \o ItemAt(bindings, names(bindings)[k]).file

C10_Witness ==
    /\ res.op = "add"
    /\ Len(res.pre) = 3 /\ Len(bindings) = 3
    /\ res.pre[1].name = BoundName(res.arg.name)
    /\ bindings[3].name = res.pre[1].name
    /\ bindings[3].item # res.pre[1].item

----------------------------------------------------------------------------
(* Properties of PlsPlaylist (checked under SpecPlaylist) *)

\* C11: when add(name, item) is called with a name without a dot that is not
\* bound, and the item is bound under another name, then afterwards name is
\* bound to the item, no other name is bound to the item, and every binding
\* of every other item is still there.
C11_AddRemovesOnlyTheItemsBinding ==
    (res.op = "add" /\ ~HasDot(res.arg.name)
     /\ ~Bound(res.pre, res.arg.name)
     /\ \E i \in 1..Len(res.pre) :
           res.pre[i].item.title = res.arg.item.title) =>
        /\ Bound(playlist, res.arg.name)
        /\ ItemAt(playlist, res.arg.name) = res.arg.item
        /\ \A i \in 1..Len(res.pre) :
              IF res.pre[i].item.title = res.arg.item.title
              THEN ~Bound(playlist, res.pre[i].name)
              ELSE /\ Bound(playlist, res.pre[i].name)
                   /\ ItemAt(playlist, res.pre[i].name) = res.pre[i].item

----------------------------------------------------------------------------
(* The add/get round trip of the named/grouped collection (SpecNamed) *)

\* What get(name) returns in the state add(name, item) has just made.
GetAfterAdd == radio_get(symbol, bindings, res.arg.name)

\* C12 as claimed: get(name) right after add(name, item) returns the item,
\* with or without a group symbol.
C12_AddGetRoundTrip ==
    (res.op = "add") =>
        GetAfterAdd.err = "" /\ GetAfterAdd.item = res.arg.item

\* C12 as amended: get(name) right after add(name, item) returns the item
\* when the collection has no group symbol or name itself is not a bound
\* name; with a group symbol and name itself bound, it returns the item
\* bound under exactly name.
C12_RoundTripUnlessNameItselfBound ==
    (res.op = "add") =>
        /\ GetAfterAdd.err = ""
        /\ IF symbol = "" \/ ~Bound(bindings, res.arg.name)
           THEN GetAfterAdd.item = res.arg.item
           ELSE GetAfterAdd.item = ItemAt(bindings, res.arg.name)

C12_Witness ==
    /\ res.op = "add" /\ symbol = "s" /\ res.arg.name = "s_x"
    /\ ~Bound(bindings, "s_x")
    /\ Bound(bindings, "s_y") /\ Bound(bindings, "s_s_x")
    /\ ItemAt(bindings, "s_y") # res.arg.item
    /\ GetAfterAdd.item = res.arg.item

C12_WitnessShadowed ==
    /\ res.op = "add" /\ symbol = "s" /\ res.arg.name = "s_x"
    /\ Bound(bindings, "s_x")
    /\ GetAfterAdd.item.title # res.arg.item.title

====
